---- MODULE Spec2Model ----
(***************************************************************************)
(* Model of js/boilerplate/mouse.js: the pointer tracker (Mouse.coords,    *)
(* trackmove, App.isHovered), the listeners delegating canvas events to    *)
(* App.Events, and the edge scroller (Mouse.Scroll).                       *)
(*                                                                         *)
(* Spec: the scroller on a 10 x 10 canvas.  TrackSpec: the tracker, the    *)
(* hit test and the delegating listeners.  NumSpec: the arithmetic of      *)
(* translate() on a 1000 x 600 canvas.  LiveSpec: the same under a running *)
(* animation loop.                                                         *)
(*                                                                         *)
(* Numbers: pixel coordinates and offsets are integers.  Fractions         *)
(* (THRESHOLD, App.physicsDelta, the easing argument) are exact rationals  *)
(* [n, d] with d > 0; IEEE-754 rounding of the products is not modelled.   *)
(***************************************************************************)
EXTENDS Integers, Sequences, FiniteSets, TLC

\* ------------------------------------------------------------------ bounds
\* offsets further than this outside the world bounds are not explored further
OffCap == 1
\* the largest page coordinate a touch point carries
MaxTouch == 12

\* ---------------------------------------------------------------- numbers
Abs(a) == IF a < 0 THEN -a ELSE a

RECURSIVE Gcd(_, _)
Gcd(a, b) == IF b = 0 THEN a ELSE Gcd(b, a % b)

\* the rational n / d, d > 0, in lowest terms
Rat(n, d) == LET g == Gcd(Abs(n), d) IN [n |-> n \div g, d |-> d \div g]

\* Math.min(a, q) for an integer a and a rational q
MathMin(a, q) == IF a * q.d <= q.n THEN Rat(a, 1) ELSE q

\* Math.round(n / d), d > 0: the nearest integer, halves towards +Infinity
MathRound(n, d) == (2 * n + d) \div (2 * d)

RECURSIVE SqrtSearch(_, _, _)
SqrtSearch(v, lo, hi) ==
    IF lo >= hi THEN lo
    ELSE LET mid == (lo + hi + 1) \div 2
         IN  IF mid * mid <= v THEN SqrtSearch(v, mid, hi)
             ELSE SqrtSearch(v, lo, mid - 1)

\* floor(Math.sqrt(v)) for an integer v >= 0
FloorSqrt(v) == SqrtSearch(v, 0, 20000)

\* Math.round(Math.sqrt(qn / qd) * (mn / md)) for qn >= 0, qd > 0, md > 0:
\* the integer k with k - 1/2 <= sqrt(q) * m < k + 1/2
RoundSqrtMul(qn, qd, mn, md) ==
    LET den == md * md * qd
        num == 4 * mn * mn * qn
        fl  == FloorSqrt(num \div den)
        exact == (fl * fl * den = num)
    IN  IF mn >= 0
        THEN (fl + 1) \div 2
        ELSE LET c == IF exact THEN fl ELSE fl + 1
             IN  -(IF c <= 1 THEN 0 ELSE c \div 2)

\* 2 * Math.cos(n * PI / d), for the angles whose cosine is rational
TwiceCos(n, d) ==
    LET g  == Gcd(Abs(n), d)
        rn == n \div g
        rd == d \div g
        k  == rn % (2 * rd)
    IN  CASE rd = 1 -> IF k = 0 THEN 2 ELSE -2
          [] rd = 2 -> IF k = 0 THEN 2 ELSE IF k = 2 THEN -2 ELSE 0
          [] rd = 3 -> CASE k = 0 -> 2 [] k = 1 -> 1 [] k = 2 -> -1
                         [] k = 3 -> -2 [] k = 4 -> -1 [] k = 5 -> 1

\* ------------------------------------------------------------ environment
\* Mouse.coords while the mouse is not over the canvas
Sentinel == [x |-> -9999, y |-> -9999]

\* surface positions of the mouse while it is over the canvas
MousePts == { [x |-> 0, y |-> 0], [x |-> 1, y |-> 5], [x |-> 5, y |-> 5],
              [x |-> 9, y |-> 9] }

\* page positions of a touch point (a touch keeps reporting outside the canvas)
TouchPts == { [pageX |-> MaxTouch, pageY |-> 5] }

EasingNames == {"THRESHOLD", "LINEAR", "SMOOTH", "EXPONENTIAL"}

\* what the free identifier `mousedown` of _update resolves to: no binding
\* (ReferenceError) or a property of the global object
GlobalBindings == {"undeclared", "false", "true"}

VARIABLES
    canvas,          \* the drawing surface: canvas.width, canvas.height
    coords,          \* Mouse.coords
    moveHandlers,    \* mousemove listeners of $canvas, in binding order
    over,            \* the mouse pointer is over the canvas
    canvasOff,       \* $canvas.offset()
    world,           \* world.xOffset, world.yOffset, world.width, world.height
    ctx,             \* accumulated context.translate()
    physicsDelta,    \* App.physicsDelta
    enabled, hovered, translating, scrolled,
    easing, THRESHOLD, MOVEAMOUNT,
    mousedown,       \* the `var mousedown` local to enable()
    bound,           \* number of '.translate' listener sets on $canvas
    globalMousedown, \* the binding _update reads
    fired,           \* events triggered on document by the last operation
    logged,          \* console.error calls of the last operation
    raised,          \* the last operation threw to its caller
    lastOp,          \* the last operation
    lastEvent,       \* the event it handled
    ran,             \* number of translate() runs in the last operation
    shift,           \* what translate() added to the offsets in that operation
    moved,           \* the latest translate() run changed an offset
    branches,        \* the edge branches translate() took in that operation
    notedOn,         \* the last scroll notification fired was mousescrollon
    animating,       \* what isAnimating() returns
    eventsDefined,   \* typeof App.Events !== 'undefined'
    dragged,         \* App.isSomethingBeingDragged
    forwarded,       \* events triggered on App.Events by the last operation
    hoverArg, hoverRes  \* last App.isHovered call and its result

vars == << coords, moveHandlers, over, canvasOff, world, ctx, physicsDelta,
           enabled, hovered, translating, scrolled, easing, THRESHOLD,
           MOVEAMOUNT, mousedown, bound, globalMousedown, fired, logged,
           raised, lastOp, lastEvent, ran, shift, moved, hoverArg,
           hoverRes, canvas, branches, notedOn, animating, eventsDefined,
           dragged, forwarded >>

\* A number a script may find missing is a sequence: << >> is undefined,
\* <<n>> is the number n.
Undef == << >>
Num(n) == << n >>

\* a jQuery event: pageX/pageY as jQuery copies them, and
\* originalEvent.touches (hasTouches: the property exists)
NoEvent == [type |-> "none", pageX |-> Undef, pageY |-> Undef,
            hasTouches |-> FALSE, touches |-> << >>]

MouseEvent(t, p) ==
    [type |-> t, pageX |-> Num(p.x + canvasOff.left),
     pageY |-> Num(p.y + canvasOff.top),
     hasTouches |-> FALSE, touches |-> << >>]

TouchEvent(t, ts) ==
    [type |-> t, pageX |-> Undef, pageY |-> Undef,
     hasTouches |-> TRUE, touches |-> ts]

\* ---------------------------------------------------------- pointer tracker
\* JavaScript truthiness of a number or undefined
Truthy(v) == v /= Undef /\ v /= Num(0)

\* e.originalEvent.touches[0] is an object
HasTouch(e) == e.hasTouches /\ Len(e.touches) > 0

\* e.pageX || e.originalEvent.touches[0].pageX; << >> when it throws TypeError
ReadX(e) == IF Truthy(e.pageX) THEN e.pageX
            ELSE IF HasTouch(e) THEN Num(e.touches[1].pageX) ELSE << >>

ReadY(e) == IF Truthy(e.pageY) THEN e.pageY
            ELSE IF HasTouch(e) THEN Num(e.touches[1].pageY) ELSE << >>

\* the mutable program state a handler works on
Cur == [coords |-> coords, moveHandlers |-> moveHandlers, world |-> world,
        ctx |-> ctx, enabled |-> enabled, hovered |-> hovered,
        translating |-> translating, scrolled |-> scrolled,
        mousedown |-> mousedown, bound |-> bound, fired |-> << >>,
        logged |-> 0, raised |-> FALSE, ran |-> 0,
        shift |-> [x |-> 0, y |-> 0], moved |-> moved, branches |-> {},
        notedOn |-> notedOn, dragged |-> dragged, forwarded |-> << >>]

trackmove(s, e) ==
    IF ReadX(e) = << >> \/ ReadY(e) = << >>
    THEN [s EXCEPT !.logged = @ + 1]
    ELSE [s EXCEPT !.coords = [x |-> ReadX(e)[1] - canvasOff.left,
                               y |-> ReadY(e)[1] - canvasOff.top]]

\* delegate without the isAnimating() test
delegate_whenDefined(s, e) ==
    LET r == IF e.type = "touchstart" THEN trackmove(s, e) ELSE s
    IN  IF eventsDefined
        THEN [r EXCEPT !.forwarded = Append(@, e.type)]
        ELSE r

\* the listener delegating mousedown, mouseup, click, touchstart and
\* touchend to App.Events
delegate(s, e) ==
    LET r == IF e.type = "touchstart" THEN trackmove(s, e) ELSE s
    IN  IF animating /\ eventsDefined
        THEN [r EXCEPT !.forwarded = Append(@, e.type)]
        ELSE r

\* dragstop telling App.Events only while the animation runs
dragstop_whenAnimating(s) ==
    LET r == IF animating /\ eventsDefined
             THEN [s EXCEPT !.forwarded = Append(@, "canvasdragstop")]
             ELSE s
    IN  [r EXCEPT !.dragged = FALSE,
                  !.fired = Append(@, "canvasdragstop")]

\* 'mouseup.drag touchend.drag'
dragstop(s) ==
    LET r == IF eventsDefined
             THEN [s EXCEPT !.forwarded = Append(@, "canvasdragstop")]
             ELSE s
    IN  [r EXCEPT !.dragged = FALSE,
                  !.fired = Append(@, "canvasdragstop")]

\* $canvas.hover(in, out)
hoverIn(s) == [s EXCEPT !.moveHandlers = Append(@, "coords")]

hoverOut(s) ==
    [s EXCEPT !.moveHandlers = SelectSeq(@, LAMBDA h : h /= "coords"),
              !.coords = Sentinel]

\* world.getOffsets()
getOffsets(s) == [x |-> s.world.xOffset, y |-> s.world.yOffset]

\* isHovered with the left edge counted as inside (>= for >)
isHovered_leftEdgeIn(s, obj) ==
    LET offsets == getOffsets(s)
        xPos == obj.x - offsets.x
        yPos == obj.y - offsets.y
    IN  s.coords.x >= xPos /\ s.coords.x < xPos + obj.width /\
        s.coords.y > yPos /\ s.coords.y < yPos + obj.height

isHovered(s, obj) ==
    LET offsets == getOffsets(s)
        xPos == obj.x - offsets.x
        yPos == obj.y - offsets.y
    IN  s.coords.x > xPos /\ s.coords.x < xPos + obj.width /\
        s.coords.y > yPos /\ s.coords.y < yPos + obj.height

\* ------------------------------------------------------------ Mouse.Scroll
\* easedMove with Math.floor in place of Math.round for LINEAR
easedMove_floor(name, v, m) ==
    CASE name = "THRESHOLD" -> MathRound(m.n, m.d)
      [] name = "LINEAR" -> ((v.d - v.n) * m.n) \div (v.d * m.d)
      [] name = "SMOOTH" ->
            MathRound((2 - TwiceCos(v.d - v.n, v.d)) * m.n, 4 * m.d)
      [] name = "EXPONENTIAL" ->
            LET q == Rat(v.d - v.n, v.d) IN RoundSqrtMul(q.n, q.d, m.n, m.d)

\* Math.round(easing(val) * m) for the easing functions of the table;
\* val = v.n / v.d and m = m.n / m.d
easedMove(name, v, m) ==
    CASE name = "THRESHOLD" -> MathRound(m.n, m.d)
      [] name = "LINEAR" -> MathRound((v.d - v.n) * m.n, v.d * m.d)
      [] name = "SMOOTH" ->
            MathRound((2 - TwiceCos(v.d - v.n, v.d)) * m.n, 4 * m.d)
      [] name = "EXPONENTIAL" ->
            LET q == Rat(v.d - v.n, v.d) IN RoundSqrtMul(q.n, q.d, m.n, m.d)

\* MOVEAMOUNT * App.physicsDelta
maxStep == Rat(MOVEAMOUNT * physicsDelta.n, physicsDelta.d)

\* axisBranch with the band's inner edge counted as inside (<= for <)
axisBranch_inclusive(c, ext) ==
    IF c * THRESHOLD.d <= ext * THRESHOLD.n THEN "near"
    ELSE IF c * THRESHOLD.d > ext * (THRESHOLD.d - THRESHOLD.n) THEN "far"
    ELSE "none"

\* One axis of translate(): which edge test succeeds, `if (c < ext *
\* THRESHOLD) ... else if (c > ext * (1 - THRESHOLD))`
axisBranch(c, ext) ==
    IF c * THRESHOLD.d < ext * THRESHOLD.n THEN "near"
    ELSE IF c * THRESHOLD.d > ext * (THRESHOLD.d - THRESHOLD.n) THEN "far"
    ELSE "none"

\* One axis of translate(): the amount added to the offset by the near-edge
\* (left, up) branch, else by the far-edge (right, down) branch, else 0.
\* c: Mouse.coords on the axis, ext: canvas extent, off: world offset,
\* wext: world extent.
axisShift(c, ext, off, wext) ==
    CASE axisBranch(c, ext) = "near" ->
            -easedMove(easing, Rat(c * THRESHOLD.d, ext * THRESHOLD.n),
                       MathMin(off, maxStep))
      [] axisBranch(c, ext) = "far" ->
            easedMove(easing, Rat((ext - c) * THRESHOLD.d, ext * THRESHOLD.n),
                      MathMin(wext - ext - off, maxStep))
      [] OTHER -> 0

\* the names of the branches translate() takes for Mouse.coords = c
edgeBranches(c) ==
    LET bx == axisBranch(c.x, canvas.width)
        by == axisBranch(c.y, canvas.height)
    IN  (IF bx = "near" THEN {"left"} ELSE IF bx = "far" THEN {"right"} ELSE {})
        \cup
        (IF by = "near" THEN {"up"} ELSE IF by = "far" THEN {"down"} ELSE {})

\* translate() moving the context the same way as the offsets
translate_sameSign(s) ==
    LET initialTranslationState == s.translating
        dx == axisShift(s.coords.x, canvas.width, s.world.xOffset,
                        s.world.width)
        dy == axisShift(s.coords.y, canvas.height, s.world.yOffset,
                        s.world.height)
        sc == [x |-> s.scrolled.x + dx, y |-> s.scrolled.y + dy]
        tr == sc.x /= 0 /\ sc.y /= 0
        ev == IF ~initialTranslationState /\ tr THEN << "mousescrollon" >>
              ELSE IF initialTranslationState /\ ~tr
              THEN << "mousescrolloff" >>
              ELSE << >>
    IN  [s EXCEPT !.world.xOffset = @ + dx,
                  !.world.yOffset = @ + dy,
                  !.scrolled = sc,
                  !.ctx = [x |-> @.x + dx, y |-> @.y + dy],
                  !.translating = tr,
                  !.fired = @ \o ev,
                  !.notedOn = IF ev = << >> THEN @ ELSE ev[1] = "mousescrollon",
                  !.branches = @ \cup edgeBranches(s.coords),
                  !.ran = @ + 1,
                  !.shift = [x |-> dx, y |-> dy],
                  !.moved = (dx /= 0 \/ dy /= 0)]

translate(s) ==
    LET initialTranslationState == s.translating
        dx == axisShift(s.coords.x, canvas.width, s.world.xOffset,
                        s.world.width)
        dy == axisShift(s.coords.y, canvas.height, s.world.yOffset,
                        s.world.height)
        sc == [x |-> s.scrolled.x + dx, y |-> s.scrolled.y + dy]
        tr == sc.x /= 0 /\ sc.y /= 0
        ev == IF ~initialTranslationState /\ tr THEN << "mousescrollon" >>
              ELSE IF initialTranslationState /\ ~tr
              THEN << "mousescrolloff" >>
              ELSE << >>
    IN  [s EXCEPT !.world.xOffset = @ + dx,
                  !.world.yOffset = @ + dy,
                  !.scrolled = sc,
                  !.ctx = [x |-> @.x - dx, y |-> @.y - dy],
                  !.translating = tr,
                  !.fired = @ \o ev,
                  !.notedOn = IF ev = << >> THEN @ ELSE ev[1] = "mousescrollon",
                  !.branches = @ \cup edgeBranches(s.coords),
                  !.ran = @ + 1,
                  !.shift = [x |-> dx, y |-> dy],
                  !.moved = (dx /= 0 \/ dy /= 0)]

\* the one-shot 'mousemove.translate' listener
firstMove(s) ==
    IF s.coords.x >= 0 /\ s.coords.y >= 0
    THEN translate([s EXCEPT !.hovered = TRUE])
    ELSE s

\* 'mouseenter.translate touchstart.translate'
enterHandler(s) == translate([s EXCEPT !.hovered = TRUE])

\* 'mouseleave.translate touchleave.translate'
leaveHandler(s) ==
    IF s.translating
    THEN [s EXCEPT !.hovered = FALSE, !.translating = FALSE,
                   !.fired = Append(@, "mousescrolloff"),
                   !.notedOn = FALSE]
    ELSE [s EXCEPT !.hovered = FALSE]

\* a press handler that also ends the scroll
downHandler_stopsScroll(s) ==
    [s EXCEPT !.mousedown = TRUE, !.translating = FALSE]

\* 'mousedown.translate touchstart.translate'
downHandler(s) == [s EXCEPT !.mousedown = TRUE]

\* 'mouseup.translate touchend.translate'
upHandler(s) == [s EXCEPT !.mousedown = FALSE]

\* the '.translate' listeners enable() binds, by name
listener(name, s) ==
    CASE name = "enter" -> enterHandler(s)
      [] name = "leave" -> leaveHandler(s)
      [] name = "down" -> downHandler(s)
      [] name = "up" -> upHandler(s)

\* run a listener once for every time it is bound
RECURSIVE Times(_, _, _)
Times(n, name, s) ==
    IF n = 0 THEN s ELSE Times(n - 1, name, listener(name, s))

\* enable() without the `if (enabled) return` guard
enable_rebinds(s) ==
    [s EXCEPT !.enabled = TRUE,
              !.moveHandlers = Append(@, "translate"),
              !.bound = @ + 1,
              !.mousedown = FALSE]

\* enable() that starts translating at once instead of waiting for the pointer
enable_translates(s) ==
    IF s.enabled THEN s
    ELSE translate([s EXCEPT !.enabled = TRUE,
                             !.hovered = TRUE,
                             !.moveHandlers = Append(@, "translate"),
                             !.bound = @ + 1,
                             !.mousedown = FALSE])

enable(s) ==
    IF s.enabled THEN s
    ELSE [s EXCEPT !.enabled = TRUE,
                   !.moveHandlers = Append(@, "translate"),
                   !.bound = @ + 1,
                   !.mousedown = FALSE]

\* disable() without $canvas.off('.translate')
disable_keepsListeners(s) ==
    [s EXCEPT !.hovered = FALSE, !.enabled = FALSE, !.translating = FALSE]

disable(s) ==
    [s EXCEPT !.moveHandlers = SelectSeq(@, LAMBDA h : h /= "translate"),
              !.bound = 0,
              !.hovered = FALSE, !.enabled = FALSE, !.translating = FALSE]

\* _update: `hovered && !mousedown` reads the global binding, not the local
\* of enable(); without a binding the read throws ReferenceError
update(s) ==
    IF ~s.hovered THEN s
    ELSE CASE globalMousedown = "undeclared" -> [s EXCEPT !.raised = TRUE]
           [] globalMousedown = "false" -> translate(s)
           [] globalMousedown = "true" -> s

\* the mousemove listeners of $canvas, run in binding order; the one-shot
\* listener unbinds itself
RECURSIVE runMove(_, _, _)
runMove(hs, s, e) ==
    IF hs = << >> THEN s
    ELSE IF Head(hs) = "coords" THEN runMove(Tail(hs), trackmove(s, e), e)
    ELSE runMove(Tail(hs), firstMove(s), e)

mousemove(s, e) ==
    LET r == runMove(s.moveHandlers, s, e)
    IN  [r EXCEPT !.moveHandlers = SelectSeq(@, LAMBDA h : h /= "translate")]

\* ------------------------------------------------------------------ actions
Commit(s, op, e) ==
    /\ coords' = s.coords
    /\ moveHandlers' = s.moveHandlers
    /\ world' = s.world
    /\ ctx' = s.ctx
    /\ enabled' = s.enabled
    /\ hovered' = s.hovered
    /\ translating' = s.translating
    /\ scrolled' = s.scrolled
    /\ mousedown' = s.mousedown
    /\ bound' = s.bound
    /\ fired' = s.fired
    /\ logged' = s.logged
    /\ raised' = s.raised
    /\ ran' = s.ran
    /\ shift' = s.shift
    /\ moved' = s.moved
    /\ branches' = s.branches
    /\ notedOn' = s.notedOn
    /\ dragged' = s.dragged
    /\ forwarded' = s.forwarded
    /\ lastOp' = op
    /\ lastEvent' = e

\* the explored part of the state space
InCap ==
    /\ world.xOffset \in -OffCap .. world.width - canvas.width + OffCap
    /\ world.yOffset \in -OffCap .. world.height - canvas.height + OffCap

Config == << canvas, canvasOff, physicsDelta, easing, THRESHOLD, MOVEAMOUNT,
             globalMousedown, animating, eventsDefined >>

Zero == [x |-> 0, y |-> 0]

InitCommon ==
    /\ coords = Sentinel
    /\ moveHandlers = << >>
    /\ over = FALSE
    /\ ctx = Zero
    /\ enabled = FALSE /\ hovered = FALSE /\ translating = FALSE
    /\ scrolled = Zero
    /\ easing = "SMOOTH"
    /\ THRESHOLD = Rat(1, 5)
    /\ MOVEAMOUNT = 350
    /\ mousedown = FALSE
    /\ bound = 0
    /\ fired = << >> /\ logged = 0 /\ raised = FALSE
    /\ lastOp = "init" /\ lastEvent = NoEvent
    /\ ran = 0 /\ shift = Zero /\ moved = FALSE
    /\ branches = {} /\ notedOn = FALSE
    /\ dragged = FALSE /\ forwarded = << >>
    /\ hoverArg = [x |-> 0, y |-> 0, width |-> 0, height |-> 0]
    /\ hoverRes = FALSE

\* the world and the viewport offsets the run starts from, inside the bounds
InitWorlds ==
    { [xOffset |-> 1, yOffset |-> 1, width |-> 12, height |-> 12] }

\* With THRESHOLD = 1/5 a band of the 10 x 10 canvas is 2 pixels wide, so the
\* SMOOTH angle is a multiple of PI / 2.
Init ==
    /\ InitCommon
    /\ canvas = [width |-> 10, height |-> 10]
    /\ animating = TRUE /\ eventsDefined = TRUE
    /\ canvasOff = [left |-> 0, top |-> 0]
    /\ world \in InitWorlds
    /\ physicsDelta = Rat(1, 175)
    /\ globalMousedown \in GlobalBindings

\* the pointer enters the canvas: hover-in, then mouseenter.translate
MouseEnter ==
    /\ InCap /\ ~over
    /\ over' = TRUE
    /\ Commit(Times(bound, "enter", hoverIn(Cur)), "mouseenter",
              MouseEvent("mouseenter", [x |-> 0, y |-> 0]))
    /\ UNCHANGED << Config, hoverArg, hoverRes >>

\* the pointer leaves the canvas: hover-out, then mouseleave.translate
MouseLeave ==
    /\ InCap /\ over
    /\ over' = FALSE
    /\ Commit(Times(bound, "leave", hoverOut(Cur)), "mouseleave",
              MouseEvent("mouseleave", [x |-> 0, y |-> 0]))
    /\ UNCHANGED << Config, hoverArg, hoverRes >>

MouseMove(p) ==
    /\ InCap /\ over
    /\ LET e == MouseEvent("mousemove", p)
       IN  Commit(mousemove(Cur, e), "mousemove", e)
    /\ UNCHANGED << Config, over, hoverArg, hoverRes >>

MouseDown ==
    /\ InCap /\ over
    /\ LET e == MouseEvent("mousedown", [x |-> 0, y |-> 0])
       IN  Commit(Times(bound, "down", delegate(Cur, e)), "mousedown", e)
    /\ UNCHANGED << Config, over, hoverArg, hoverRes >>

MouseUp ==
    /\ InCap /\ over
    /\ LET e == MouseEvent("mouseup", [x |-> 0, y |-> 0])
       IN  Commit(Times(bound, "up", dragstop(delegate(Cur, e))),
                  "mouseup", e)
    /\ UNCHANGED << Config, over, hoverArg, hoverRes >>

\* touchstart: the delegating listener tracks the touch, then
\* touchstart.translate (enter), then touchstart.translate (press)
TouchStart(ts) ==
    /\ InCap
    /\ LET e == TouchEvent("touchstart", ts)
       IN  Commit(Times(bound, "down",
                        Times(bound, "enter", delegate(Cur, e))),
                  "touchstart", e)
    /\ UNCHANGED << Config, over, hoverArg, hoverRes >>

TouchMove(ts) ==
    /\ InCap
    /\ LET e == TouchEvent("touchmove", ts)
       IN  Commit(trackmove(Cur, e), "touchmove", e)
    /\ UNCHANGED << Config, over, hoverArg, hoverRes >>

TouchEnd ==
    /\ InCap
    /\ LET e == TouchEvent("touchend", << >>)
       IN  Commit(Times(bound, "up", dragstop(delegate(Cur, e))),
                  "touchend", e)
    /\ UNCHANGED << Config, over, hoverArg, hoverRes >>

Enable ==
    /\ InCap
    /\ Commit(enable(Cur), "enable", NoEvent)
    /\ UNCHANGED << Config, over, hoverArg, hoverRes >>

Disable ==
    /\ InCap
    /\ Commit(disable(Cur), "disable", NoEvent)
    /\ UNCHANGED << Config, over, hoverArg, hoverRes >>

\* one call of Mouse.Scroll._update by the animation loop
Tick ==
    /\ InCap
    /\ \E s \in {update(Cur)} : Commit(s, "update", NoEvent)
    /\ UNCHANGED << Config, over, hoverArg, hoverRes >>

setEasingFunction(name) ==
    /\ InCap /\ easing /= name
    /\ easing' = name
    /\ Commit(Cur, "setEasingFunction", NoEvent)
    /\ UNCHANGED << canvas, canvasOff, physicsDelta, THRESHOLD, MOVEAMOUNT,
                    globalMousedown, animating, eventsDefined, over,
                    hoverArg, hoverRes >>

TouchLists == { << >> } \cup { << t >> : t \in TouchPts }

Next ==
    \/ MouseEnter
    \/ MouseLeave
    \/ \E p \in MousePts : MouseMove(p)
    \/ MouseDown
    \/ MouseUp
    \/ \E ts \in TouchLists : TouchStart(ts)
    \/ \E ts \in TouchLists : TouchMove(ts)
    \/ TouchEnd
    \/ Enable
    \/ Disable
    \/ Tick
    \/ \E name \in EasingNames : setEasingFunction(name)

Spec == Init /\ [][Next]_vars


\* -------------------------------------------- the tracker and the hit test
\* App.isHovered(obj) called by a game object
isHoveredCall(obj) ==
    /\ InCap
    /\ hoverArg' = obj
    /\ hoverRes' = isHovered(Cur, obj)
    /\ Commit(Cur, "isHovered", NoEvent)
    /\ UNCHANGED << Config, over >>

\* a click on the canvas: only the delegating listener is bound to it
Click ==
    /\ InCap /\ over
    /\ LET e == MouseEvent("click", [x |-> 0, y |-> 0])
       IN  Commit(delegate(Cur, e), "click", e)
    /\ UNCHANGED << Config, over, hoverArg, hoverRes >>

\* an Actor starts being dragged: App.isSomethingBeingDragged = true
DragStart ==
    /\ InCap /\ ~dragged
    /\ Commit([Cur EXCEPT !.dragged = TRUE], "dragstart", NoEvent)
    /\ UNCHANGED << Config, over, hoverArg, hoverRes >>

\* positions of the canvas on the page
CanvasOffsets == { [left |-> 0, top |-> 0], [left |-> 3, top |-> 2] }

\* worlds and viewport offsets the hit test is tried on
TrackWorlds ==
    { [xOffset |-> 0, yOffset |-> 0, width |-> 12, height |-> 12],
      [xOffset |-> 1, yOffset |-> 2, width |-> 12, height |-> 12],
      [xOffset |-> 10000, yOffset |-> 10000, width |-> 20010,
       height |-> 20010] }

\* rectangles {x, y, width, height} in world coordinates
Rects ==
    { [x |-> 0, y |-> 0, width |-> 5, height |-> 5],
      [x |-> 2, y |-> 3, width |-> 8, height |-> 8],
      [x |-> 4, y |-> 4, width |-> 2, height |-> 2],
      [x |-> 6, y |-> 7, width |-> 0, height |-> 0],
      [x |-> 0, y |-> 0, width |-> 20010, height |-> 20010] }

TrackTouchLists ==
    { << >>, << [pageX |-> 0, pageY |-> 4] >>,
      << [pageX |-> MaxTouch, pageY |-> 5] >> }

InitTrack ==
    /\ InitCommon
    /\ canvas = [width |-> 10, height |-> 10]
    /\ animating \in BOOLEAN /\ eventsDefined \in BOOLEAN
    /\ canvasOff \in CanvasOffsets
    /\ world \in TrackWorlds
    /\ physicsDelta = Rat(1, 175)
    /\ globalMousedown = "undeclared"

NextTrack ==
    \/ MouseEnter
    \/ MouseLeave
    \/ \E p \in MousePts : MouseMove(p)
    \/ \E ts \in TrackTouchLists : TouchStart(ts)
    \/ \E ts \in TrackTouchLists : TouchMove(ts)
    \/ \E obj \in Rects : isHoveredCall(obj)
    \/ MouseDown
    \/ MouseUp
    \/ Click
    \/ TouchEnd
    \/ DragStart

TrackSpec == InitTrack /\ [][NextTrack]_vars

\* ------------------------------------------- the arithmetic of translate()
\* An enabled, hovered scroller on a 1000 x 600 canvas, configured through
\* setThreshold, setScrollDistance and setEasingFunction, with the pointer
\* resting at one place while the animation loop calls _update.  SMOOTH is
\* left to Spec, where every angle it meets has a rational cosine.
NumCanvas == [width |-> 1000, height |-> 600]

NumWorlds ==
    { [xOffset |-> x, yOffset |-> y, width |-> 2000, height |-> 1200] :
        x \in {0, 1, 350, 1000}, y \in {0, 300, 600} }

\* where the pointer rests: in a band, on a band's inner edge, in the middle
NumPts ==
    { [x |-> 50, y |-> 300], [x |-> 0, y |-> 0], [x |-> 199, y |-> 119],
      [x |-> 200, y |-> 120], [x |-> 500, y |-> 300], [x |-> 800, y |-> 480],
      [x |-> 801, y |-> 481], [x |-> 1000, y |-> 600], [x |-> 400, y |-> 50],
      [x |-> 950, y |-> 360] }

NumThresholds == { Rat(0, 1), Rat(1, 5), Rat(2, 5) }

NumEasings == {"THRESHOLD", "LINEAR", "EXPONENTIAL"}

\* App.physicsDelta in seconds: a one-second frame and a 1/350 s frame
NumDeltas == { Rat(1, 1), Rat(1, 350) }

InitNum ==
    /\ canvas = NumCanvas
    /\ canvasOff = [left |-> 3, top |-> 2]
    /\ world \in NumWorlds
    /\ coords \in NumPts
    /\ moveHandlers = << "coords" >> /\ over = TRUE
    /\ ctx = Zero /\ scrolled = Zero
    /\ enabled = TRUE /\ hovered = TRUE /\ translating = FALSE
    /\ mousedown = FALSE /\ bound = 1
    /\ easing \in NumEasings
    /\ THRESHOLD \in NumThresholds
    /\ MOVEAMOUNT = 350
    /\ physicsDelta \in NumDeltas
    /\ globalMousedown \in GlobalBindings
    /\ animating = TRUE /\ eventsDefined = TRUE
    /\ fired = << >> /\ logged = 0 /\ raised = FALSE
    /\ lastOp = "init" /\ lastEvent = NoEvent
    /\ ran = 0 /\ shift = Zero /\ moved = FALSE
    /\ branches = {} /\ notedOn = FALSE
    /\ dragged = FALSE /\ forwarded = << >>
    /\ hoverArg = [x |-> 0, y |-> 0, width |-> 0, height |-> 0]
    /\ hoverRes = FALSE

NumSpec == InitNum /\ [][Tick]_vars

\* where the pointer rests for good: in the left band, near the inner edges
\* of the left and upper bands, in the right band
LivePts ==
    { [x |-> 50, y |-> 300], [x |-> 199, y |-> 119], [x |-> 950, y |-> 360] }

InitLive ==
    /\ InitNum
    /\ coords \in LivePts
    /\ world.xOffset = 350 /\ world.yOffset = 300
    /\ THRESHOLD = Rat(1, 5)
    /\ easing \in {"THRESHOLD", "LINEAR"}

\* The same scroller while the animation loop keeps running: every frame
\* calls _update, so a tick that would change the state is eventually taken.
LiveSpec == InitLive /\ [][Tick]_vars /\ WF_vars(Tick)

\* ------------------------------------------------------------------ claims
InBounds(w) ==
    /\ w.xOffset \in 0 .. w.width - canvas.width
    /\ w.yOffset \in 0 .. w.height - canvas.height

Count(seq, name) == Len(SelectSeq(seq, LAMBDA n : n = name))

\* C1: after any sequence of operations started inside the world bounds,
\* world.xOffset is within [0, world.width - canvas.width] and world.yOffset
\* within [0, world.height - canvas.height], for every easing and every
\* value of Mouse.coords (the sentinel included).
C1_OffsetsStayInBounds == InBounds(world)

\* C2: translating is true only if the scroller is enabled, the pointer is
\* hovered, no press is held and the most recent tick shifted the viewport.
C2_TranslatingOnlyWhileMoving ==
    translating => (enabled /\ hovered /\ ~mousedown /\ moved)

\* C3: right after translate() has run, translating is true iff that run
\* changed the offset on at least one axis.
C3_TranslatingIffShifted ==
    ran > 0 => (translating <=> (shift.x /= 0 \/ shift.y /= 0))

\* C4: an _update tick flips translating from true to false exactly when the
\* tick shifts by zero on both axes after translating was true, and it fires
\* exactly one mousescrolloff on such a flip and none otherwise.
C4_FlipExactlyOnZeroShift ==
    [][lastOp' = "update" =>
        LET flip == translating /\ ~translating'
        IN  /\ flip <=> (translating /\ ran' > 0 /\ shift' = Zero)
            /\ Count(fired', "mousescrolloff") = (IF flip THEN 1 ELSE 0)]_vars

\* C5: while a press is held on the surface (scroller enabled and hovered),
\* a call of _update changes neither the offsets, nor the rendering
\* transform, nor translating.
C5_UpdateIsNoOpWhilePressed ==
    [][(lastOp' = "update" /\ enabled /\ hovered /\ mousedown) =>
        (world' = world /\ ctx' = ctx /\ translating' = translating)]_vars

\* C6: after disable(), enabled, hovered and translating are false, and
\* until the next enable() no pointer event and no _update tick changes the
\* offsets, hovered or translating.
C6_DisableHaltsScrolling ==
    /\ [](lastOp = "disable" => (~enabled /\ ~hovered /\ ~translating))
    /\ [][(~enabled /\ lastOp' /= "enable") =>
            (world' = world /\ hovered' = hovered
                /\ translating' = translating)]_vars

\* a disabled scroller that had scrolled before, after an event that would
\* scroll an enabled one
C6_Witness ==
    /\ ~enabled /\ scrolled /= Zero
    /\ lastOp \in {"mouseenter", "touchstart", "update"}

\* the pointer lies strictly inside obj drawn at the current viewport offset
StrictlyInside(obj) ==
    /\ coords.x \in (obj.x - world.xOffset + 1) ..
                    (obj.x - world.xOffset + obj.width - 1)
    /\ coords.y \in (obj.y - world.yOffset + 1) ..
                    (obj.y - world.yOffset + obj.height - 1)

\* C7: App.isHovered returns true exactly when the pointer lies strictly
\* inside the rectangle moved to surface coordinates; on an edge or outside
\* it returns false.
C7_HoveredIffStrictlyInside ==
    lastOp = "isHovered" => (hoverRes <=> StrictlyInside(hoverArg))

\* a hit with the pointer one pixel inside the left edge of the rectangle
C7_Witness ==
    /\ lastOp = "isHovered" /\ hoverRes
    /\ coords.x = hoverArg.x - world.xOffset + 1

\* C8: after the mouse has left the surface Mouse.coords is the sentinel,
\* and App.isHovered is false for every rectangle with x >= 0 and y >= 0,
\* whatever its size and the viewport offset within the world bounds.
C8_NothingHoveredAfterLeave ==
    /\ [](lastOp = "mouseleave" => coords = Sentinel)
    /\ [][(lastOp = "mouseleave" /\ lastOp' = "isHovered" /\ InBounds(world)
            /\ hoverArg'.x >= 0 /\ hoverArg'.y >= 0) => ~hoverRes']_vars

\* the page coordinates a movement event carries
Carries(e) == e.pageX /= Undef \/ (e.hasTouches /\ Len(e.touches) > 0)

Carried(e) ==
    IF e.pageX /= Undef THEN [x |-> e.pageX[1], y |-> e.pageY[1]]
    ELSE [x |-> e.touches[1].pageX, y |-> e.touches[1].pageY]

Tracked(c, e) ==
    c = [x |-> Carried(e).x - canvasOff.left,
         y |-> Carried(e).y - canvasOff.top]

\* C9: after every tracked movement event carrying (px, py), Mouse.coords is
\* (px - surfaceLeft, py - surfaceTop), also for px = 0 or py = 0.
C9_CoordsFollowEvent ==
    (lastOp \in {"mousemove", "touchmove"} /\ Carries(lastEvent))
        => Tracked(coords, lastEvent)

\* C10: a movement event whose coordinates cannot be read raises nothing and
\* leaves Mouse.coords as it was, and the next well-formed movement event
\* still updates Mouse.coords.
C10_UnreadableEventDiscarded ==
    [][lastOp' \in {"mousemove", "touchmove"} =>
        /\ ~Carries(lastEvent') => (~raised' /\ coords' = coords)
        /\ (logged > 0 /\ Carries(lastEvent')) =>
                Tracked(coords', lastEvent')]_vars

\* the pointer is inside the left band: 0 <= x < THRESHOLD * canvas.width
InLeftBand(x) ==
    x >= 0 /\ x * THRESHOLD.d < canvas.width * THRESHOLD.n

\* k is v.n / v.d rounded to the nearest integer, halves up:
\* k - 1/2 <= v < k + 1/2
IsRounded(k, v) ==
    (2 * k - 1) * v.d <= 2 * v.n /\ 2 * v.n < (2 * k + 1) * v.d

\* (1 - x / (THRESHOLD * canvas.width)) * min(off, MOVEAMOUNT * delta)
LinearLeftMove(x, off) ==
    LET sn == MOVEAMOUNT * physicsDelta.n
        sd == physicsDelta.d
        mn == IF off * sd <= sn THEN off * sd ELSE sn
        gn == THRESHOLD.n * canvas.width - x * THRESHOLD.d
        gd == THRESHOLD.n * canvas.width
    IN  [n |-> gn * mn, d |-> gd * sd]

C12_ReleaseEndsDrag ==
    lastOp \in {"mouseup", "touchend"} =>
        /\ ~dragged
        /\ Count(fired, "canvasdragstop") = 1
        /\ Count(forwarded, "canvasdragstop") = (IF eventsDefined THEN 1 ELSE 0)

\* a release while the animation is stopped and App.Events exists
C12_Witness ==
    /\ lastOp = "mouseup" /\ ~animating /\ eventsDefined
    /\ forwarded = << "canvasdragstop" >> /\ fired = << "canvasdragstop" >>

DelegatedTypes == {"mousedown", "mouseup", "click", "touchstart", "touchend"}

\* C13: a mousedown, mouseup, click, touchstart or touchend on the canvas is
\* triggered on App.Events under its own event name exactly once if
\* isAnimating() is true and App.Events is defined, and not at all
\* otherwise.
C13_ForwardedOnceWhileAnimating ==
    lastOp \in DelegatedTypes =>
        /\ lastEvent.type = lastOp
        /\ Count(forwarded, lastOp) =
                (IF animating /\ eventsDefined THEN 1 ELSE 0)

\* a release forwarded under its own name next to the canvasdragstop
C13_Witness ==
    /\ lastOp = "mouseup" /\ animating /\ eventsDefined
    /\ forwarded = << "mouseup", "canvasdragstop" >>

\* C14: enable() and disable() never change world.xOffset, world.yOffset or
\* the rendering transform, and enable() immediately followed by disable()
\* leaves the scroller with enabled = hovered = translating = false.
C14_EnableDisableKeepViewport ==
    [][/\ lastOp' \in {"enable", "disable"} =>
            (world' = world /\ ctx' = ctx)
       /\ (lastOp = "enable" /\ lastOp' = "disable") =>
            (~enabled' /\ ~hovered' /\ ~translating')]_vars

\* disable() called on a scroller that has moved the viewport
C14_Witness ==
    /\ lastOp = "disable" /\ ~enabled
    /\ world.xOffset /= 1 /\ ctx.x = 1 - world.xOffset

\* c lies in none of the two bands of an axis of extent ext:
\* THRESHOLD * ext <= c <= (1 - THRESHOLD) * ext
BetweenBands(c, ext) ==
    /\ ext * THRESHOLD.n <= c * THRESHOLD.d
    /\ c * THRESHOLD.d <= ext * (THRESHOLD.d - THRESHOLD.n)

\* C15: for a threshold in [0, 0.5), a tick with the pointer outside all
\* four bands leaves world.xOffset, world.yOffset and the rendering transform
\* unchanged; and a tick runs at most one of the two edge branches of each
\* axis, the x branch decided by x alone and the y branch by y alone.
C15_NoShiftBetweenBands ==
    [][(lastOp' = "update" /\ 0 <= THRESHOLD.n
            /\ 2 * THRESHOLD.n < THRESHOLD.d) =>
        /\ (BetweenBands(coords.x, canvas.width)
                /\ BetweenBands(coords.y, canvas.height))
            => (world' = world /\ ctx' = ctx)
        /\ ~({"left", "right"} \subseteq branches')
        /\ ~({"up", "down"} \subseteq branches')
        /\ ran' = 1 =>
            /\ "left" \in branches'
                    <=> coords.x * THRESHOLD.d < canvas.width * THRESHOLD.n
            /\ "right" \in branches'
                    <=> coords.x * THRESHOLD.d
                            > canvas.width * (THRESHOLD.d - THRESHOLD.n)
            /\ "up" \in branches'
                    <=> coords.y * THRESHOLD.d < canvas.height * THRESHOLD.n
            /\ "down" \in branches'
                    <=> coords.y * THRESHOLD.d
                            > canvas.height * (THRESHOLD.d - THRESHOLD.n)]_vars

\* translate() ran with the pointer on the inner edge of the left and of the
\* upper band and took no branch
C15_Witness ==
    /\ lastOp = "update" /\ ran = 1 /\ THRESHOLD = Rat(1, 5)
    /\ easing = "THRESHOLD"
    /\ coords = [x |-> 200, y |-> 120]
    /\ world.xOffset = 350 /\ world.yOffset = 300
    /\ branches = {} /\ shift = Zero

\* C16: after any sequence of operations the accumulated context
\* translation on each axis is -(current offset - initial offset) and the
\* accumulated scrolled delta is (current offset - initial offset).
C16_TransformMirrorsOffsets ==
    \E w \in InitWorlds :
        /\ ctx.x = -(world.xOffset - w.xOffset)
        /\ ctx.y = -(world.yOffset - w.yOffset)
        /\ scrolled.x = world.xOffset - w.xOffset
        /\ scrolled.y = world.yOffset - w.yOffset

\* translate() has just moved the viewport on both axes, away from where it
\* started
C16_Witness ==
    /\ ran = 1 /\ shift.x /= 0 /\ shift.y /= 0
    /\ scrolled.x /= 0 /\ scrolled.y /= 0 /\ scrolled /= shift

\* C17: a mousedown or mouseup event never changes translating, hovered,
\* enabled or the world offsets, so isScrolling() keeps returning true
\* through a click-and-drag that started while the viewport was scrolling.
C17_PressKeepsScrollState ==
    [][lastOp' \in {"mousedown", "mouseup"} =>
        /\ translating' = translating
        /\ hovered' = hovered
        /\ enabled' = enabled
        /\ world' = world]_vars

\* a press held on an enabled scroller while isScrolling() is true
C17_Witness ==
    /\ lastOp = "mousedown" /\ enabled /\ mousedown /\ translating

\* C18: after any sequence of enable(), disable() and pointer events the
\* '.translate' listeners are attached exactly once while isEnabled() is
\* true and not at all while it is false: a repeated enable() attaches
\* nothing more, one enter event runs the translation at most once, and one
\* disable() removes every listener, the one-shot first-move listener
\* included.
C18_ListenersBoundOnce ==
    /\ enabled => bound = 1
    /\ ~enabled => (bound = 0 /\ Count(moveHandlers, "translate") = 0)
    /\ Count(moveHandlers, "translate") <= 1
    /\ lastOp = "mouseenter" => ran <= 1

\* enable() called again on a scroller that was already enabled and hovered
C18_Witness ==
    /\ lastOp = "enable" /\ enabled /\ hovered /\ bound = 1
    /\ Count(moveHandlers, "translate") = 1

\* the mousescrollon / mousescrolloff notifications among the events fired
ScrollNotes(f) ==
    SelectSeq(f, LAMBDA n : n \in {"mousescrollon", "mousescrolloff"})

\* the notifications in f alternate, continuing from a last notification
\* that was mousescrollon (on) or was not (~on)
RECURSIVE Alternates(_, _)
Alternates(on, f) ==
    \/ f = << >>
    \/ /\ Head(f) = (IF on THEN "mousescrolloff" ELSE "mousescrollon")
       /\ Alternates(~on, Tail(f))

\* C19: the mousescrollon and mousescrolloff notifications strictly
\* alternate, starting with mousescrollon, and at every moment isScrolling()
\* is true exactly when the last notification fired was mousescrollon.
C19_NotificationsMatchScrolling ==
    /\ [](translating <=> notedOn)
    /\ [][Alternates(notedOn, ScrollNotes(fired'))]_vars

\* the viewport is at the world bound of every side whose band holds the
\* pointer
AtBoundOfPointerSide ==
    /\ "left" \in edgeBranches(coords) => world.xOffset = 0
    /\ "right" \in edgeBranches(coords)
            => world.xOffset = world.width - canvas.width
    /\ "up" \in edgeBranches(coords) => world.yOffset = 0
    /\ "down" \in edgeBranches(coords)
            => world.yOffset = world.height - canvas.height

\* enabled, hovered, no press held, the pointer in an edge band and
\* MOVEAMOUNT * App.physicsDelta >= 1
ScrollingTowardsBound ==
    /\ enabled /\ hovered /\ ~mousedown
    /\ edgeBranches(coords) /= {}
    /\ MOVEAMOUNT * physicsDelta.n >= physicsDelta.d

\* C20: if the scroller stays enabled and hovered with no press held, the
\* pointer stays inside one edge band and ticks keep occurring with a
\* per-tick maximum step of at least 1 pixel, then the viewport eventually
\* reaches the world bound on that side, and from then on ticks no longer
\* change that offset.
C20_ReachesWorldBound == ScrollingTowardsBound => <>[]AtBoundOfPointerSide

====
